---- MODULE Spec2Model ----
(***************************************************************************)
(* A model of MP2/main.c: the DAXPY benchmark driver (main, run_test,      *)
(* verify_with_example), its helpers (daxpy_c, init_data,                  *)
(* check_correctness, print_first_ten, time_c, time_asm) and the external  *)
(* kernel daxpy_asm it links against.                                      *)
(*                                                                         *)
(* Doubles.  A double is modelled exactly on the sub-domain                *)
(*     m/1000 + e * 2^-30      (m, e small integers),                      *)
(* written D(m, e).  m counts thousandths (the grid init_data produces and *)
(* the literal example lives on), e counts steps of 2^-30, the grid on     *)
(* which EPS = 1e-9 separates neighbours: 1 * 2^-30 = 9.31e-10 <= EPS and  *)
(* 2 * 2^-30 = 1.86e-9 > EPS.  The scalar A is an integer-valued double.   *)
(* On this domain A*x + y is computed without rounding whenever m is a     *)
(* multiple of 1000; for the other thousandths the last-bit rounding of    *)
(* the double (relative 2^-53) is not modelled.  NaN and infinities are    *)
(* outside the domain.                                                     *)
(*                                                                         *)
(* Memory.  mem maps every live object (a malloc'ed block or an automatic  *)
(* array) to its contents, a function from the modelled indices of the     *)
(* object to doubles.  A pointer is an object id, NULL is 0.               *)
(***************************************************************************)
EXTENDS Integers, Sequences, FiniteSets, TLC

VARIABLES
    pc,         \* position of the (single) thread of control
    mem,        \* live objects: id -> [modelled index -> double]
    heap,       \* ids of the live malloc'ed blocks
    k,          \* main: how many run_test calls have been started
    n,          \* run_test / verify_with_example: the local n
    A,          \* the local A
    x, y, zC, zA,   \* the four buffer pointers
    i,          \* loop counter of the two timing loops
    sumC, sumA, \* accumulated durations, in clock ticks
    avgC, avgA, \* the averages, rationals over ticks
    ok,         \* result of check_correctness
    out,        \* what the current phase has printed so far
    done,       \* the phases finished so far, in order
    exitStatus, \* main's return value, -1 while running
    fault,      \* ghost: a NULL, dangling or uninitialised access, or a bad free
    callsC, callsA, \* ghost: kernel invocations in the current size-run
    durC, durA, \* ghost: ticks really spent inside the kernel calls
    nChecks,    \* ghost: check_correctness calls in the current phase
    nInit,      \* ghost: init_data calls in the current phase
    asmDev,     \* how far the linked daxpy_asm strays from its contract
    ut          \* arguments and results of a helper called on its own

vars == <<pc, mem, heap, k, n, A, x, y, zC, zA, i, sumC, sumA, avgC, avgA,
          ok, out, done, exitStatus, fault, callsC, callsA, durC, durA,
          nChecks, nInit, asmDev, ut>>

----------------------------------------------------------------------------
(* Bounds of the model *)

\* buffers of a benchmark run are modelled at their first Window indices
\* and at their last index
Window == 3
\* helper calls on their own: vectors of up to MaxLen elements
MaxLen == 3
\* check_correctness on its own: vectors of up to CheckLen elements
CheckLen == 6
\* processor time used before the timing loops start, in clock ticks
ClockBase == 5

----------------------------------------------------------------------------
(* Program constants *)

RUNS == 30
\* floor(EPS / 2^-30) for EPS = 1e-9: a difference of e steps of 2^-30
\* exceeds EPS iff e > EpsSteps
EpsSteps == 1
\* size_t of the x86-64 target: SizeLimbs limbs of 16 bits (base LimbBase)
LimbBase == 65536
SizeLimbs == 4

NULL == 0

----------------------------------------------------------------------------
(* Doubles *)

D(m, e) == [m |-> m, e |-> e]

\* the contents of storage nobody has written yet
Undef == [undef |-> TRUE]

DAdd(a, b) == D(a.m + b.m, a.e + b.e)

DSub(a, b) == D(a.m - b.m, a.e - b.e)

\* s * a for an integer-valued s
DScale(s, a) == D(s * a.m, s * a.e)

\* (double)v * 0.001 and (double)v * 0.002 for an integer v
DMilli(v, per) == D(v * per, 0)

DNeg(a) == D(-a.m, -a.e)

\* sign of m/1000 + e*2^-30 for |e| < 2^20
DIsNeg(a) == a.m < 0 \/ (a.m = 0 /\ a.e < 0)

\* the difference taken without fabs
fabs_none(a) == a

fabs(a) == IF DIsNeg(a) THEN DNeg(a) ELSE a

\* a > EPS, for |a.e| < 2^20
GtEPS(a) == a.m > 0 \/ (a.m = 0 /\ a.e > EpsSteps)

----------------------------------------------------------------------------
(* size_t arithmetic, 64 bits wide, on little-endian limbs *)

SizeT(v) == [j \in 0..(SizeLimbs - 1) |->
                IF j = 0 THEN v % LimbBase
                ELSE IF j = 1 THEN (v \div LimbBase) % LimbBase
                ELSE IF j = 2 THEN (v \div LimbBase) \div LimbBase
                ELSE 0]

RECURSIVE MulCarry(_, _, _)
\* the carry into limb j of a * c
MulCarry(a, c, j) ==
    IF j = 0 THEN 0 ELSE (a[j - 1] * c + MulCarry(a, c, j - 1)) \div LimbBase

\* a * c in a 16-bit size_t
SizeMul16(a, c) == [j \in 0..(SizeLimbs - 1) |->
                      IF j = 0 THEN (a[0] * c) % LimbBase ELSE 0]

\* a * c in size_t: the carry out of the top limb is dropped
SizeMul(a, c) == [j \in 0..(SizeLimbs - 1) |->
                    (a[j] * c + MulCarry(a, c, j)) % LimbBase]

\* whether a * c wraps around
SizeMulWraps(a, c) == MulCarry(a, c, SizeLimbs) # 0

RECURSIVE ModFrom(_, _, _)
ModFrom(a, d, j) ==
    IF j = SizeLimbs THEN 0
    ELSE (ModFrom(a, d, j + 1) * LimbBase + a[j]) % d

\* a % d for a small d
SizeMod(a, d) == ModFrom(a, d, 0)

----------------------------------------------------------------------------
(* Loops over a buffer run over its modelled indices in ascending order *)

\* the first modelled index in [from, len), or len when there is none
NextIdx(dom, from, len) ==
    IF from >= len THEN len
    ELSE IF from \in dom THEN from
    ELSE LET rest == {j \in dom : j > from /\ j < len}
         IN IF rest = {} THEN len
            ELSE CHOOSE j \in rest : \A l \in rest : j <= l

\* the modelled indices of a vector of n elements
Modelled(len) == {j \in 0..(Window - 1) : j < len} \cup
                 (IF len > 0 THEN {len - 1} ELSE {})

----------------------------------------------------------------------------
(* The kernels and helpers *)

RECURSIVE DaxpyCLoop(_, _, _, _, _, _, _)
DaxpyCLoop(m, z, px, py, a, len, from) ==
    LET j == NextIdx(DOMAIN m[z], from, len) IN
    IF j < len
    THEN DaxpyCLoop([m EXCEPT ![z][j] = DAdd(DScale(a, m[px][j]), m[py][j])],
                    z, px, py, a, len, j + 1)
    ELSE m

\* daxpy_c with the loop test i <= n
daxpy_c_upto_n(m, z, px, py, a, len) == DaxpyCLoop(m, z, px, py, a, len + 1, 0)

\* daxpy_c with x and y taken for each other
daxpy_c_swapped(m, z, px, py, a, len) == DaxpyCLoop(m, z, py, px, a, len, 0)

\* daxpy_c without the multiplication by A
daxpy_c_noscale(m, z, px, py, a, len) == DaxpyCLoop(m, z, px, py, 1, len, 0)

\* void daxpy_c(z, x, y, A, n): the memory after the call
daxpy_c(m, z, px, py, a, len) == DaxpyCLoop(m, z, px, py, a, len, 0)

RECURSIVE DaxpyAsmLoop(_, _, _, _, _, _, _, _)
DaxpyAsmLoop(m, z, px, py, frame, pA, len, from) ==
    LET j == NextIdx(DOMAIN m[z], from, len) IN
    IF j < len
    THEN DaxpyAsmLoop([m EXCEPT ![z][j] =
                            DAdd(DScale(frame[pA], m[px][j]), m[py][j])],
                      z, px, py, frame, pA, len, j + 1)
    ELSE m

\* void daxpy_asm(z, x, y, pA, n): pA names the caller's variable holding A
daxpy_asm(m, z, px, py, frame, pA, len) ==
    DaxpyAsmLoop(m, z, px, py, frame, pA, len, 0)

\* x[i] of init_data
InitX(j) == DMilli(j % 1000, 1)

\* y[i] of init_data; i * 7 is a size_t product
InitY(j) == DMilli(SizeMod(SizeMul(SizeT(j), 7), 1000), 2)

RECURSIVE InitLoop(_, _, _, _, _)
InitLoop(m, px, py, len, from) ==
    LET j == NextIdx(DOMAIN m[px], from, len) IN
    IF j < len
    THEN InitLoop([m EXCEPT ![px][j] = InitX(j), ![py][j] = InitY(j)],
                  px, py, len, j + 1)
    ELSE m

\* void init_data(x, y, n): the memory after the call
init_data(m, px, py, len) == InitLoop(m, px, py, len, 0)

\* the test of line 33 for one index
Mismatch(m, ref, test, j) == GtEPS(fabs(DSub(m[ref][j], m[test][j])))

RECURSIVE CheckLoop(_, _, _, _, _)
CheckLoop(m, ref, test, len, from) ==
    LET j == NextIdx(DOMAIN m[ref], from, len) IN
    IF j < len
    THEN IF Mismatch(m, ref, test, j)
         THEN [ret |-> 0,
               printed |-> <<[msg |-> "Mismatch", index |-> j,
                              ref |-> m[ref][j], test |-> m[test][j]]>>]
         ELSE CheckLoop(m, ref, test, len, j + 1)
    ELSE [ret |-> 1, printed |-> <<>>]

\* int check_correctness(ref, test, n): the return value and what it prints
check_correctness(m, ref, test, len) == CheckLoop(m, ref, test, len, 0)

\* print_first_ten(label, z, n): the line it prints
print_first_ten(m, label, z, len) ==
    [msg |-> label,
     elems |-> [j \in {l \in DOMAIN m[z] : l < 10 /\ l < len} |-> m[z][j]]]

----------------------------------------------------------------------------
(* Timing *)

\* the clock ticks one kernel call may take
Ticks == {0, 1}

\* clock(): the processor time used so far, ClockBase ticks before the
\* timing loops of a size-run plus dC + dA ticks inside its kernel calls
clock(dC, dA) == ClockBase + dC + dA

\* (double)(end - start) / CLOCKS_PER_SEC, in units of 1/CLOCKS_PER_SEC
Elapsed(start, end) == end - start

Rat(num, den) == [num |-> num, den |-> den]

\* time_c returning clock() instead of clock() - start
time_c_raw(m, z, px, py, a, len, start, d) ==
    [mem |-> daxpy_c(m, z, px, py, a, len), ret |-> start + d]

\* double time_c(z, x, y, A, n): the memory after the call and the duration
\* returned, when clock() reads start before the kernel and start + d after
time_c(m, z, px, py, a, len, start, d) ==
    [mem |-> daxpy_c(m, z, px, py, a, len), ret |-> Elapsed(start, start + d)]

\* what the linked daxpy_asm leaves in memory: its contract's result, off by
\* dev.by at index dev.at for vectors of at least dev.minLen elements
Linked(m, z, len, dev) ==
    IF dev.at \in DOMAIN m[z] /\ dev.at < len /\ len >= dev.minLen
    THEN [m EXCEPT ![z][dev.at] = DAdd(m[z][dev.at], dev.by)]
    ELSE m

\* double time_asm(z, x, y, A, n): A is copied into the callee's frame and
\* passed by address
time_asm(m, z, px, py, a, len, start, d, dev) ==
    LET frame == [A |-> a] IN
    [mem |-> Linked(daxpy_asm(m, z, px, py, frame, "A", len), z, len, dev),
     ret |-> Elapsed(start, start + d)]

\* sum / RUNS
Average(sum) == Rat(sum, RUNS)

----------------------------------------------------------------------------
(* The heap *)

EmptyMem == [b \in {} |-> Undef]

\* the block malloc hands out: the lowest id not in use
FreshBlock(m) == CHOOSE b \in 1..(Cardinality(DOMAIN m) + 1) :
                    /\ b \notin DOMAIN m
                    /\ \A c \in 1..(Cardinality(DOMAIN m) + 1) :
                            c \notin DOMAIN m => b <= c

\* an object of len elements nobody has written
Fresh(len) == [j \in Modelled(len) |-> Undef]

\* free(p) on the state st = [mem, heap, fault]: free(NULL) does nothing,
\* freeing anything but a live block is an error
Free(st, p) ==
    IF p = NULL THEN st
    ELSE IF p \in st.heap
    THEN [mem |-> [b \in DOMAIN st.mem \ {p} |-> st.mem[b]],
          heap |-> st.heap \ {p},
          fault |-> st.fault]
    ELSE [st EXCEPT !.fault = TRUE]

\* the four frees without free(zA)
FreeAll_leak(st, px, py, pzC, pzA) == Free(Free(Free(st, px), py), pzC)

\* free(x); free(y); free(zC); free(zA);
FreeAll(st, px, py, pzC, pzA) == Free(Free(Free(Free(st, px), py), pzC), pzA)

\* every pointer names a live object
Live(m, ptrs) == \A p \in ptrs : p # NULL /\ p \in DOMAIN m

\* every element of the objects below len has been written
Written(m, ptrs, len) ==
    \A p \in ptrs : \A j \in DOMAIN m[p] : j < len => m[p][j] # Undef

----------------------------------------------------------------------------
(* The driver *)

\* the sizes with the first two taken for each other
Sizes_swapped == <<2^24, 2^20, 2^28>>

\* (size_t)1 << 20, 24, 28
Sizes == <<2^20, 2^24, 2^28>>

RECURSIVE Log2(_)
\* (int)log2((double)n) for a power of two
Log2(v) == IF v <= 1 THEN 0 ELSE 1 + Log2(v \div 2)

\* the test without !zA
AllocFailed_three(px, py, pzC, pzA) == px = NULL \/ py = NULL \/ pzC = NULL

\* !x || !y || !zC || !zA
AllocFailed(px, py, pzC, pzA) ==
    px = NULL \/ py = NULL \/ pzC = NULL \/ pzA = NULL

\* run_test giving up after a FAILED verdict
AfterCheck_exit(res) == IF res = 0 THEN "abort" ELSE "r_print"

\* where run_test goes on after printing the verdict
AfterCheck(res) == "r_print"

\* where verify_with_example goes on after printing the verdict
AfterVerifyCheck(res) == "v_ret"

VerdictLine(res) == [msg |-> "Correctness", verdict |-> IF res # 0 THEN "PASSED" ELSE "FAILED"]

AllocFailLine == [msg |-> "Memory allocation failed."]

\* what a finished phase is remembered by
Summary(phase, len, printed) ==
    [phase |-> phase, n |-> len,
     verdict |-> IF \E l \in 1..Len(printed) : printed[l] = AllocFailLine
                 THEN "alloc_failed"
                 ELSE IF \E l \in 1..Len(printed) : printed[l] = VerdictLine(1)
                 THEN "PASSED"
                 ELSE IF \E l \in 1..Len(printed) : printed[l] = VerdictLine(0)
                 THEN "FAILED"
                 ELSE "none"]

NoDev == [at |-> 0, by |-> D(0, 0), minLen |-> 0]

Idle == [unit |-> "driver"]

locals == <<n, A, x, y, zC, zA, i, sumC, sumA, avgC, avgA, ok>>
ghosts == <<callsC, callsA, durC, durA, nChecks, nInit>>

\* the state of a frame's locals before the frame exists
NoLocals ==
    /\ n' = 0 /\ A' = 0 /\ x' = NULL /\ y' = NULL /\ zC' = NULL /\ zA' = NULL
    /\ i' = 0 /\ sumC' = 0 /\ sumA' = 0
    /\ avgC' = Rat(0, 1) /\ avgA' = Rat(0, 1) /\ ok' = 1

DriverInit(devs) ==
    /\ pc = "main"
    /\ mem = EmptyMem /\ heap = {}
    /\ k = 0 /\ n = 0 /\ A = 0
    /\ x = NULL /\ y = NULL /\ zC = NULL /\ zA = NULL
    /\ i = 0 /\ sumC = 0 /\ sumA = 0
    /\ avgC = Rat(0, 1) /\ avgA = Rat(0, 1) /\ ok = 1
    /\ out = <<>> /\ done = <<>> /\ exitStatus = -1
    /\ fault = FALSE
    /\ callsC = 0 /\ callsA = 0 /\ durC = 0 /\ durA = 0 /\ nChecks = 0 /\ nInit = 0
    /\ asmDev \in devs
    /\ ut = Idle

\* a process that touched storage it does not own is killed
Crash ==
    /\ pc' = "crashed" /\ fault' = TRUE
    /\ UNCHANGED <<mem, heap, k, locals, out, done, exitStatus, ghosts, asmDev, ut>>

\* main() is entered and calls verify_with_example()
MainStart ==
    /\ pc = "main"
    /\ pc' = "v_enter"
    /\ UNCHANGED <<mem, heap, k, locals, out, done, exitStatus, fault, ghosts, asmDev, ut>>

\* lines 66-87: the header, the locals, the inputs and the expected values
VerifyEnter ==
    /\ pc = "v_enter"
    /\ LET xs == [j \in 0..2 |-> D(1000 * (j + 1), 0)]
           ys == [j \in 0..2 |-> D(1000 * (j + 11), 0)]
           zs == [j \in 0..2 |-> D(0, 0)]
       IN /\ A' = 2 /\ n' = 3
          /\ x' = 1 /\ y' = 2 /\ zC' = 3 /\ zA' = 4
          /\ mem' = (1 :> xs) @@ (2 :> ys) @@ (3 :> zs) @@ (4 :> zs)
          /\ out' = <<[msg |-> "PROCESS VERIFICATION"],
                      [msg |-> "Input", A |-> 2, x |-> xs, y |-> ys],
                      [msg |-> "Process",
                       expected |-> [j \in 0..2 |-> DAdd(DScale(2, xs[j]), ys[j])]]>>
    /\ pc' = "v_c"
    /\ callsC' = 0 /\ callsA' = 0 /\ durC' = 0 /\ durA' = 0 /\ nChecks' = 0 /\ nInit' = 0
    /\ UNCHANGED <<heap, k, i, sumC, sumA, avgC, avgA, ok, done, exitStatus,
                   fault, asmDev, ut>>

\* line 90
VerifyC ==
    /\ pc = "v_c"
    /\ mem' = daxpy_c(mem, zC, x, y, A, n)
    /\ callsC' = callsC + 1
    /\ pc' = "v_asm"
    /\ UNCHANGED <<heap, k, locals, out, done, exitStatus, fault,
                   callsA, durC, durA, nChecks, nInit, asmDev, ut>>

\* line 91
VerifyAsm ==
    /\ pc = "v_asm"
    /\ mem' = Linked(daxpy_asm(mem, zA, x, y, [A |-> A], "A", n), zA, n, asmDev)
    /\ callsA' = callsA + 1
    /\ pc' = "v_print"
    /\ UNCHANGED <<heap, k, locals, out, done, exitStatus, fault,
                   callsC, durC, durA, nChecks, nInit, asmDev, ut>>

\* lines 93-97
VerifyPrint ==
    /\ pc = "v_print"
    /\ out' = out \o <<[msg |-> "Output (C kernel)", z |-> mem[zC]],
                       [msg |-> "Output (x86-64 ASM kernel)", z |-> mem[zA]]>>
    /\ pc' = "v_check"
    /\ UNCHANGED <<mem, heap, k, locals, done, exitStatus, fault, ghosts, asmDev, ut>>

\* lines 99-100
VerifyCheck ==
    /\ pc = "v_check"
    /\ LET r == check_correctness(mem, zC, zA, n)
       IN /\ ok' = r.ret
          /\ out' = out \o r.printed \o <<VerdictLine(r.ret)>>
          /\ pc' = AfterVerifyCheck(r.ret)
    /\ nChecks' = nChecks + 1
    /\ UNCHANGED <<mem, heap, k, n, A, x, y, zC, zA, i, sumC, sumA, avgC, avgA,
                   done, exitStatus, fault, callsC, callsA, durC, durA, nInit,
                   asmDev, ut>>

\* line 101: the automatic arrays end with the frame
VerifyReturn ==
    /\ pc = "v_ret"
    /\ mem' = [b \in DOMAIN mem \ {x, y, zC, zA} |-> mem[b]]
    /\ done' = Append(done, Summary("verify", n, out))
    /\ NoLocals
    /\ pc' = "m_call"
    /\ UNCHANGED <<heap, k, out, exitStatus, fault, ghosts, asmDev, ut>>

\* lines 159-161: the next run_test call, lines 106-110 of it
MainCall ==
    /\ pc = "m_call" /\ k < Len(Sizes)
    /\ k' = k + 1
    /\ n' = Sizes[k + 1] /\ A' = 2
    /\ out' = <<[msg |-> "Vector size", n |-> Sizes[k + 1], log2 |-> Log2(Sizes[k + 1])]>>
    /\ callsC' = 0 /\ callsA' = 0 /\ durC' = 0 /\ durA' = 0 /\ nChecks' = 0 /\ nInit' = 0
    /\ pc' = "r_malloc_x"
    /\ UNCHANGED <<mem, heap, x, y, zC, zA, i, sumC, sumA, avgC, avgA, ok,
                   done, exitStatus, fault, asmDev, ut>>

\* lines 163-167
MainFinish ==
    /\ pc = "m_call" /\ k = Len(Sizes)
    /\ out' = <<[msg |-> "All tests completed!"]>>
    /\ exitStatus' = 0
    /\ pc' = "exited"
    /\ UNCHANGED <<mem, heap, k, locals, done, fault, ghosts, asmDev, ut>>

\* malloc(n * sizeof(double)): a fresh block of unwritten storage, or NULL.
\* n * 8 is at most 2^31 and does not wrap in the 64-bit size_t.
Malloc(m, hp, len, success) ==
    IF success
    THEN LET b == FreshBlock(m)
         IN [ptr |-> b, mem |-> (b :> Fresh(len)) @@ m, heap |-> hp \cup {b}]
    ELSE [ptr |-> NULL, mem |-> m, heap |-> hp]

\* line 112
MallocX ==
    /\ pc = "r_malloc_x"
    /\ \E success \in BOOLEAN :
         LET r == Malloc(mem, heap, n, success)
         IN x' = r.ptr /\ mem' = r.mem /\ heap' = r.heap
    /\ pc' = "r_malloc_y"
    /\ UNCHANGED <<k, n, A, y, zC, zA, i, sumC, sumA, avgC, avgA, ok, out, done,
                   exitStatus, fault, ghosts, asmDev, ut>>

\* line 113
MallocY ==
    /\ pc = "r_malloc_y"
    /\ \E success \in BOOLEAN :
         LET r == Malloc(mem, heap, n, success)
         IN y' = r.ptr /\ mem' = r.mem /\ heap' = r.heap
    /\ pc' = "r_malloc_zC"
    /\ UNCHANGED <<k, n, A, x, zC, zA, i, sumC, sumA, avgC, avgA, ok, out, done,
                   exitStatus, fault, ghosts, asmDev, ut>>

\* line 114
MallocZC ==
    /\ pc = "r_malloc_zC"
    /\ \E success \in BOOLEAN :
         LET r == Malloc(mem, heap, n, success)
         IN zC' = r.ptr /\ mem' = r.mem /\ heap' = r.heap
    /\ pc' = "r_malloc_zA"
    /\ UNCHANGED <<k, n, A, x, y, zA, i, sumC, sumA, avgC, avgA, ok, out, done,
                   exitStatus, fault, ghosts, asmDev, ut>>

\* line 115
MallocZA ==
    /\ pc = "r_malloc_zA"
    /\ \E success \in BOOLEAN :
         LET r == Malloc(mem, heap, n, success)
         IN zA' = r.ptr /\ mem' = r.mem /\ heap' = r.heap
    /\ pc' = "r_guard"
    /\ UNCHANGED <<k, n, A, x, y, zC, i, sumC, sumA, avgC, avgA, ok, out, done,
                   exitStatus, fault, ghosts, asmDev, ut>>

\* lines 117-121, the failure branch: the message, the four frees, return
GuardFail ==
    /\ pc = "r_guard" /\ AllocFailed(x, y, zC, zA)
    /\ out' = Append(out, AllocFailLine)
    /\ LET st == FreeAll([mem |-> mem, heap |-> heap, fault |-> fault], x, y, zC, zA)
       IN mem' = st.mem /\ heap' = st.heap /\ fault' = st.fault
    /\ pc' = "r_ret"
    /\ UNCHANGED <<k, locals, done, exitStatus, ghosts, asmDev, ut>>

\* lines 117, 123, 125: all four buffers are there; init_data and the sums
GuardPassInit ==
    /\ pc = "r_guard" /\ ~AllocFailed(x, y, zC, zA)
    /\ IF Live(mem, {x, y})
       THEN /\ mem' = init_data(mem, x, y, n)
            /\ nInit' = nInit + 1
            /\ sumC' = 0 /\ sumA' = 0 /\ i' = 0
            /\ pc' = "r_timeC"
            /\ UNCHANGED <<heap, k, n, A, x, y, zC, zA, avgC, avgA, ok, out, done,
                           exitStatus, fault, callsC, callsA, durC, durA, nChecks,
                           asmDev, ut>>
       ELSE Crash

\* line 126, one iteration
TimeC ==
    /\ pc = "r_timeC" /\ i < RUNS
    /\ IF Live(mem, {x, y, zC}) /\ Written(mem, {x, y}, n)
       THEN /\ \E d \in Ticks :
                 LET r == time_c(mem, zC, x, y, A, n, clock(durC, durA), d)
                 IN /\ mem' = r.mem
                    /\ sumC' = sumC + r.ret
                    /\ durC' = durC + d
            /\ i' = i + 1
            /\ callsC' = callsC + 1
            /\ UNCHANGED <<pc, heap, k, n, A, x, y, zC, zA, sumA, avgC, avgA, ok,
                           out, done, exitStatus, fault, callsA, durA, nChecks,
                           nInit, asmDev, ut>>
       ELSE Crash

\* line 126, the loop ends; line 127 starts
TimeCDone ==
    /\ pc = "r_timeC" /\ i >= RUNS
    /\ i' = 0
    /\ pc' = "r_timeA"
    /\ UNCHANGED <<mem, heap, k, n, A, x, y, zC, zA, sumC, sumA, avgC, avgA, ok,
                   out, done, exitStatus, fault, ghosts, asmDev, ut>>

\* line 127, one iteration
TimeAsm ==
    /\ pc = "r_timeA" /\ i < RUNS
    /\ IF Live(mem, {x, y, zA}) /\ Written(mem, {x, y}, n)
       THEN /\ \E d \in Ticks :
                 LET r == time_asm(mem, zA, x, y, A, n, clock(durC, durA), d, asmDev)
                 IN /\ mem' = r.mem
                    /\ sumA' = sumA + r.ret
                    /\ durA' = durA + d
            /\ i' = i + 1
            /\ callsA' = callsA + 1
            /\ UNCHANGED <<pc, heap, k, n, A, x, y, zC, zA, sumC, avgC, avgA, ok,
                           out, done, exitStatus, fault, callsC, durC, nChecks,
                           nInit, asmDev, ut>>
       ELSE Crash

\* line 127, the loop ends; lines 129-130
TimeAsmDone ==
    /\ pc = "r_timeA" /\ i >= RUNS
    /\ avgC' = Average(sumC)
    /\ avgA' = Average(sumA)
    /\ pc' = "r_check"
    /\ UNCHANGED <<mem, heap, k, n, A, x, y, zC, zA, i, sumC, sumA, ok,
                   out, done, exitStatus, fault, ghosts, asmDev, ut>>

\* lines 132-133
Check ==
    /\ pc = "r_check"
    /\ IF Live(mem, {zC, zA}) /\ Written(mem, {zC, zA}, n)
       THEN /\ LET r == check_correctness(mem, zC, zA, n)
               IN /\ ok' = r.ret
                  /\ out' = out \o r.printed \o <<VerdictLine(r.ret)>>
                  /\ pc' = AfterCheck(r.ret)
            /\ nChecks' = nChecks + 1
            /\ UNCHANGED <<mem, heap, k, n, A, x, y, zC, zA, i, sumC, sumA, avgC,
                           avgA, done, exitStatus, fault, callsC, callsA, durC,
                           durA, nInit, asmDev, ut>>
       ELSE Crash

\* lines 135-140
Report ==
    /\ pc = "r_print"
    /\ IF Live(mem, {zC, zA})
       THEN /\ out' = out \o <<print_first_ten(mem, "C version result", zC, n),
                               print_first_ten(mem, "x86-64 ASM version result", zA, n),
                               [msg |-> "Average kernel execution time", runs |-> RUNS,
                                C |-> avgC, asm |-> avgA]>>
            /\ pc' = "r_free"
            /\ UNCHANGED <<mem, heap, k, locals, done, exitStatus, fault, ghosts,
                           asmDev, ut>>
       ELSE Crash

\* lines 142-145
Release ==
    /\ pc = "r_free"
    /\ LET st == FreeAll([mem |-> mem, heap |-> heap, fault |-> fault], x, y, zC, zA)
       IN mem' = st.mem /\ heap' = st.heap /\ fault' = st.fault
    /\ pc' = "r_ret"
    /\ UNCHANGED <<k, locals, out, done, exitStatus, ghosts, asmDev, ut>>

\* lines 120 and 146: run_test returns to main
RunTestReturn ==
    /\ pc = "r_ret"
    /\ done' = Append(done, Summary("bench", n, out))
    /\ NoLocals
    /\ pc' = "m_call"
    /\ UNCHANGED <<mem, heap, k, out, exitStatus, fault, ghosts, asmDev, ut>>

Next ==
    \/ MainStart \/ VerifyEnter \/ VerifyC \/ VerifyAsm \/ VerifyPrint
    \/ VerifyCheck \/ VerifyReturn \/ MainCall \/ MainFinish
    \/ MallocX \/ MallocY \/ MallocZC \/ MallocZA \/ GuardFail \/ GuardPassInit
    \/ TimeC \/ TimeCDone \/ TimeAsm \/ TimeAsmDone \/ Check \/ Report
    \/ Release \/ RunTestReturn

\* main.c linked with a daxpy_asm that meets its contract
Init == DriverInit({NoDev})

Spec == Init /\ [][Next]_vars

\* main.c linked with an arbitrary daxpy_asm: one that strays from the
\* contract by less than EPS, by more than EPS, or only on long vectors
Strays == {[at |-> 0, by |-> D(0, 1), minLen |-> 0],
           [at |-> 1, by |-> D(0, -2), minLen |-> 0],
           [at |-> 1, by |-> D(1000, 0), minLen |-> 2^24]}

InitOpaque == DriverInit(Strays)

SpecOpaque == InitOpaque /\ [][Next]_vars

----------------------------------------------------------------------------
(* The kernels called on their own, on arbitrary scalars and vectors *)

driverVars == <<heap, k, n, A, x, y, zC, zA, i, sumC, sumA, avgC, avgA, ok, out,
                done, exitStatus, fault, ghosts, asmDev>>

DriverIdle ==
    /\ heap = {} /\ k = 0 /\ n = 0 /\ A = 0
    /\ x = NULL /\ y = NULL /\ zC = NULL /\ zA = NULL
    /\ i = 0 /\ sumC = 0 /\ sumA = 0
    /\ avgC = Rat(0, 1) /\ avgA = Rat(0, 1) /\ ok = 1
    /\ out = <<>> /\ done = <<>> /\ exitStatus = -1
    /\ fault = FALSE
    /\ callsC = 0 /\ callsA = 0 /\ durC = 0 /\ durA = 0 /\ nChecks = 0 /\ nInit = 0
    /\ asmDev = NoDev

Scalars == {-1, 0, 2}
Vals == {D(0, 0), D(1000, 0), D(-2500, 1)}

\* what the output buffers hold before the call
Stale(j) == D(-9000 - j, 7)

\* x is object 1, y object 2, the output of daxpy_c object 3 and that of
\* daxpy_asm object 4; each holds MaxLen elements, of which the call uses
\* the first ut.len
InitKernels ==
    /\ DriverIdle
    /\ pc = "k_start"
    /\ \E a \in Scalars, len \in 0..MaxLen,
          xs \in [0..(MaxLen - 1) -> Vals], ys \in [0..(MaxLen - 1) -> Vals] :
         /\ ut = [unit |-> "kernels", a |-> a, len |-> len, x0 |-> xs, y0 |-> ys,
                  res |-> [ret |-> 1, printed |-> <<>>]]
         /\ mem = (1 :> xs) @@ (2 :> ys)
                  @@ (3 :> [j \in 0..(MaxLen - 1) |-> Stale(j)])
                  @@ (4 :> [j \in 0..(MaxLen - 1) |-> Stale(j)])

CallDaxpyC ==
    /\ pc = "k_start"
    /\ mem' = daxpy_c(mem, 3, 1, 2, ut.a, ut.len)
    /\ pc' = "k_c"
    /\ UNCHANGED <<driverVars, ut>>

CallDaxpyAsm ==
    /\ pc = "k_c"
    /\ mem' = daxpy_asm(mem, 4, 1, 2, [A |-> ut.a], "A", ut.len)
    /\ pc' = "k_asm"
    /\ UNCHANGED <<driverVars, ut>>

CompareKernels ==
    /\ pc = "k_asm"
    /\ ut' = [ut EXCEPT !.res = check_correctness(mem, 3, 4, ut.len)]
    /\ pc' = "k_done"
    /\ UNCHANGED <<driverVars, mem>>

NextKernels == CallDaxpyC \/ CallDaxpyAsm \/ CompareKernels

SpecKernels == InitKernels /\ [][NextKernels]_vars

----------------------------------------------------------------------------
(* check_correctness called on its own *)

\* how far test[j] is from ref[j]: not at all, by less than EPS, by more
\* than EPS downwards, by a thousandth
Devs == {D(0, 0), D(0, 1), D(0, -2), D(1, 0)}

\* ref is object 1, test object 2
InitCheck ==
    /\ DriverIdle
    /\ pc = "c_start"
    /\ \E len \in 0..CheckLen, dev \in [0..(CheckLen - 1) -> Devs] :
         /\ ut = [unit |-> "check", len |-> len, dev |-> dev,
                  res |-> [ret |-> 1, printed |-> <<>>]]
         /\ mem = (1 :> [j \in 0..(CheckLen - 1) |-> D(1000 * j, j)])
                  @@ (2 :> [j \in 0..(CheckLen - 1) |-> DAdd(D(1000 * j, j), dev[j])])

CallCheck ==
    /\ pc = "c_start"
    /\ ut' = [ut EXCEPT !.res = check_correctness(mem, 1, 2, ut.len)]
    /\ pc' = "c_done"
    /\ UNCHANGED <<driverVars, mem>>

NextCheck == CallCheck

SpecCheck == InitCheck /\ [][NextCheck]_vars

----------------------------------------------------------------------------
(* init_data called on its own, twice, on buffers of different contents *)

\* the indices the buffers are modelled at: the start, the places where
\* i % 1000 and (i * 7) % 1000 fold, and the ends of the benchmark sizes
Samples == {0, 1, 2, 142, 143, 999, 1000, 1001, 2^20 - 1, 2^20, 2^24 - 1,
            2^24, 2^28 - 2, 2^28 - 1}

InitLens == {0, 1, 3, 143, 1000, 1002, 2^20, 2^24, 2^28}

Garbage == {Undef, D(0, 0), D(123, 4)}

\* the first call fills objects 1 (x) and 2 (y), the second objects 3 and 4
InitInit ==
    /\ DriverIdle
    /\ pc = "i_start"
    /\ \E len \in InitLens, g1 \in Garbage, g2 \in Garbage :
         /\ ut = [unit |-> "init", len |-> len, g1 |-> g1, g2 |-> g2]
         /\ mem = (1 :> [j \in Samples |-> g1]) @@ (2 :> [j \in Samples |-> g1])
                  @@ (3 :> [j \in Samples |-> g2]) @@ (4 :> [j \in Samples |-> g2])

CallInitFirst ==
    /\ pc = "i_start"
    /\ mem' = init_data(mem, 1, 2, ut.len)
    /\ pc' = "i_once"
    /\ UNCHANGED <<driverVars, ut>>

CallInitAgain ==
    /\ pc = "i_once"
    /\ mem' = init_data(mem, 3, 4, ut.len)
    /\ pc' = "i_twice"
    /\ UNCHANGED <<driverVars, ut>>

NextInit == CallInitFirst \/ CallInitAgain

SpecInit == InitInit /\ [][NextInit]_vars

----------------------------------------------------------------------------
(* Claims *)

\* C1: after daxpy_c(z, x, y, A, n) returns, z[i] = A*x[i] + y[i] for every
\* i in [0, n), and x, y, the elements of z at index >= n and every other
\* object are as they were.
C1_DaxpyCContract ==
    pc \in {"k_c", "k_asm", "k_done"} =>
        /\ \A j \in 0..(MaxLen - 1) :
              mem[3][j] = IF j < ut.len
                          THEN [m |-> ut.a * ut.x0[j].m + ut.y0[j].m,
                                e |-> ut.a * ut.x0[j].e + ut.y0[j].e]
                          ELSE [m |-> -9000 - j, e |-> 7]
        /\ mem[1] = ut.x0
        /\ mem[2] = ut.y0
        /\ pc = "k_c" => \A j \in 0..(MaxLen - 1) : mem[4][j] = [m |-> -9000 - j, e |-> 7]

C1_Witness ==
    /\ pc = "k_c" /\ ut.len = 2 /\ ut.a = 2
    /\ mem[3][1] = [m |-> -4000, e |-> 2]
    /\ mem[3][2] = [m |-> -9002, e |-> 7]

\* C2: check_correctness returns 1 iff no index in [0, n) differs by more
\* than EPS; when it returns 0 it reports exactly one mismatch, at the
\* smallest index whose difference exceeds EPS.
C2_CheckContract ==
    LET Bad == {j \in 0..(ut.len - 1) : ut.dev[j] \in {D(0, -2), D(1, 0)}}
        r == ut.res
    IN pc = "c_done" =>
        /\ r.ret \in {0, 1}
        /\ r.ret = 1 <=> Bad = {}
        /\ r.ret = 1 => r.printed = <<>>
        /\ r.ret = 0 => /\ Len(r.printed) = 1
                        /\ r.printed[1].index \in Bad
                        /\ \A b \in Bad : r.printed[1].index <= b

C2_Witness ==
    /\ pc = "c_done" /\ ut.len = 6
    /\ ut.dev[0] = D(0, 1) /\ ut.dev[5] = D(0, -2)
    /\ ut.res.ret = 0
    /\ ut.res.printed[1].index = 5

\* C3: when any of the four allocations fails, run_test prints the failure
\* message, releases what was allocated, runs no initializer, kernel,
\* timing or correctness step for that size and returns; main goes on to
\* the next size and reaches the completion message; the process is not
\* aborted.
C3_AllocFailureIsLocal ==
    /\ pc # "crashed"
    /\ pc \in {"r_timeC", "r_timeA", "r_check", "r_print", "r_free"} =>
            NULL \notin {x, y, zC, zA}
    /\ (pc = "r_ret" /\ NULL \in {x, y, zC, zA}) =>
            /\ Len(out) = 2
            /\ out[1].msg = "Vector size" /\ out[1].n = n
            /\ out[2] = [msg |-> "Memory allocation failed."]
            /\ heap = {} /\ DOMAIN mem = {}
            /\ nInit = 0 /\ callsC = 0 /\ callsA = 0 /\ nChecks = 0
            /\ durC = 0 /\ durA = 0
            /\ ~fault
    /\ (pc = "m_call" /\ done[Len(done)].verdict = "alloc_failed") =>
            /\ Len(done) = k + 1
            /\ heap = {} /\ DOMAIN mem = {}
    /\ pc = "exited" =>
            /\ exitStatus = 0
            /\ out = <<[msg |-> "All tests completed!"]>>
            /\ Len(done) = 4
            /\ \A l \in 1..3 : done[l + 1].phase = "bench" /\ done[l + 1].n = 2^(16 + 4 * l)

C3_Witness ==
    /\ pc = "exited"
    /\ done[2].verdict = "alloc_failed"
    /\ done[3].verdict = "alloc_failed"
    /\ done[4].verdict = "PASSED"

\* C4: a correctness mismatch is not fatal: the driver prints the first
\* mismatch and a FAILED verdict and goes on; run_test still prints the
\* first ten outputs of both kernels and both averages and frees the
\* buffers, and the remaining sizes are still run.
C4_MismatchIsNotFatal ==
    /\ pc \notin {"abort", "crashed"}
    /\ exitStatus \in {-1, 0}
    /\ (pc \in {"v_ret", "r_print", "r_free", "r_ret"} /\ ok = 0) =>
            /\ Len(out) >= 3
            /\ \E l \in 2..Len(out) :
                 /\ out[l] = [msg |-> "Correctness", verdict |-> "FAILED"]
                 /\ out[l - 1].msg = "Mismatch"
                 /\ out[l - 1].index = asmDev.at
    /\ (pc \in {"r_free", "r_ret"} /\ ok = 0) =>
            /\ Len(out) = 6
            /\ out[4].msg = "C version result"
            /\ out[5].msg = "x86-64 ASM version result"
            /\ out[6].msg = "Average kernel execution time"
    /\ (pc = "r_ret" /\ ok = 0) => (heap = {} /\ DOMAIN mem = {})
    /\ (pc = "m_call" /\ done[Len(done)].verdict = "FAILED") => Len(done) = k + 1
    /\ pc = "exited" =>
            /\ Len(done) = 4
            /\ \A l \in 1..3 : done[l + 1].n = 2^(16 + 4 * l)

C4_Witness ==
    /\ pc = "exited"
    /\ done[1].verdict = "PASSED"
    /\ done[2].verdict = "PASSED"
    /\ done[3].verdict = "FAILED"
    /\ done[4].verdict = "FAILED"

\* the part of the run still ahead, as a number every step makes smaller
Rank ==
    100 * (3 - k) +
    CASE pc = "main" -> 27
      [] pc = "v_enter" -> 26
      [] pc = "v_c" -> 25
      [] pc = "v_asm" -> 24
      [] pc = "v_print" -> 23
      [] pc = "v_check" -> 22
      [] pc = "v_ret" -> 21
      [] pc = "m_call" -> 1
      [] pc = "r_malloc_x" -> 99
      [] pc = "r_malloc_y" -> 98
      [] pc = "r_malloc_zC" -> 97
      [] pc = "r_malloc_zA" -> 96
      [] pc = "r_guard" -> 95
      [] pc = "r_timeC" -> 94 - i
      [] pc = "r_timeA" -> 63 - i
      [] pc = "r_check" -> 32
      [] pc = "r_print" -> 31
      [] pc = "r_free" -> 30
      [] pc = "r_ret" -> 29
      [] OTHER -> 0

\* the program is at a place it goes on from
CanStep ==
    \/ pc \in {"main", "v_enter", "v_c", "v_asm", "v_print", "v_check", "v_ret"}
    \/ pc = "m_call" /\ k \in 0..3
    \/ pc \in {"r_malloc_x", "r_malloc_y", "r_malloc_zC", "r_malloc_zA", "r_guard"}
    \/ pc \in {"r_timeC", "r_timeA"} /\ i \in 0..30
    \/ pc \in {"r_check", "r_print", "r_free", "r_ret"}

PhaseOrder ==
    /\ Len(done) <= 4
    /\ \A l \in 1..Len(done) :
          IF l = 1 THEN done[l].phase = "verify"
          ELSE done[l].phase = "bench" /\ done[l].n = 2^(16 + 4 * (l - 1))
    /\ pc \in {"main", "v_enter", "v_c", "v_asm", "v_print", "v_check", "v_ret"} =>
          k = 0 /\ done = <<>>
    /\ pc \in {"r_malloc_x", "r_malloc_y", "r_malloc_zC", "r_malloc_zA", "r_guard",
               "r_timeC", "r_timeA", "r_check", "r_print", "r_free", "r_ret"} =>
          k \in 1..3 /\ Len(done) = k /\ n = 2^(16 + 4 * k)
    /\ pc = "m_call" => Len(done) = k + 1
    /\ exitStatus \in {-1, 0}
    /\ exitStatus = 0 <=> pc = "exited"
    /\ pc = "exited" => k = 3 /\ Len(done) = 4
    /\ pc = "exited" \/ CanStep

\* C5: the verification phase runs once and is over before the benchmark
\* phase starts; the sizes 2^20, 2^24, 2^28 are then run once each in that
\* order; the verification phase is never entered again; and the program
\* always ends, with exit status 0: it never stops anywhere else, and every
\* step brings the end nearer.
C5_TwoPhasesThenExit ==
    [][/\ PhaseOrder /\ PhaseOrder'
       /\ Rank >= 0 /\ Rank' >= 0 /\ Rank' < Rank
       /\ Len(done') >= Len(done)
       /\ \A l \in 1..Len(done) : done'[l] = done[l]]_vars

C5_Witness ==
    /\ pc = "exited" /\ exitStatus = 0
    /\ done[1].verdict = "FAILED"
    /\ done[2].verdict = "alloc_failed"
    /\ done[3].verdict = "FAILED"
    /\ done[4].verdict = "alloc_failed"

\* what init_data and a kernel leave at index j
ExpectX(j) == [m |-> j % 1000, e |-> 0]
ExpectY(j) == [m |-> 2 * ((7 * j) % 1000), e |-> 0]
ExpectZ(j) == [m |-> 2 * (j % 1000) + 2 * ((7 * j) % 1000), e |-> 0]

\* C6: for a size whose allocations succeed each kernel is invoked exactly
\* 30 times, every invocation computing into that kernel's own output
\* buffer from the same x and y; the reported average of a kernel is the
\* sum of its 30 per-call durations divided by 30; the correctness check
\* is done once, after all 60 invocations.
C6_ThirtyRunsThenOneCheck ==
    /\ pc = "r_timeC" => (callsC = i /\ i <= 30 /\ callsA = 0 /\ nChecks = 0)
    /\ pc = "r_timeA" => (callsC = 30 /\ callsA = i /\ i <= 30 /\ nChecks = 0)
    /\ pc = "r_check" => (callsC = 30 /\ callsA = 30 /\ nChecks = 0)
    /\ (pc \in {"r_print", "r_free"} \/ (pc = "r_ret" /\ NULL \notin {x, y, zC, zA})) =>
            (callsC = 30 /\ callsA = 30 /\ nChecks = 1 /\ nInit = 1)
    /\ pc \in {"r_timeC", "r_timeA", "r_check", "r_print", "r_free"} =>
            (sumC = durC /\ sumA = durA)
    /\ pc \in {"r_check", "r_print", "r_free"} =>
            /\ avgC = [num |-> durC, den |-> 30]
            /\ avgA = [num |-> durA, den |-> 30]
    /\ pc = "r_free" =>
            /\ out[Len(out)].msg = "Average kernel execution time"
            /\ out[Len(out)].C = [num |-> durC, den |-> 30]
            /\ out[Len(out)].asm = [num |-> durA, den |-> 30]
    /\ pc \in {"r_timeC", "r_timeA", "r_check", "r_print", "r_free"} =>
            /\ Cardinality({x, y, zC, zA}) = 4
            /\ \A j \in DOMAIN mem[x] :
                 /\ mem[x][j] = ExpectX(j)
                 /\ mem[y][j] = ExpectY(j)
                 /\ mem[zC][j] = IF callsC = 0 THEN Undef ELSE ExpectZ(j)
                 /\ mem[zA][j] = Undef <=> callsA = 0

C6_Witness ==
    /\ pc = "r_free" /\ k = 3
    /\ durC = 7 /\ durA = 30
    /\ out[Len(out)].C = [num |-> 7, den |-> 30]
    /\ mem[zC][2^28 - 1] = [m |-> 1280, e |-> 0]

\* C7: init_data writes X[i] = (i mod 1000)*0.001 and
\* Y[i] = ((i*7) mod 1000)*0.002 for every i in [0, n) and nothing else; what
\* it writes depends only on i, so a second call with the same n gives the
\* same X and Y whatever the buffers held; and for i < 2^28 the product i*7
\* does not wrap around in size_t.
C7_InitDataDeterministic ==
    pc \in {"i_once", "i_twice"} =>
        \A j \in Samples :
            IF j < ut.len
            THEN /\ mem[1][j] = [m |-> j % 1000, e |-> 0]
                 /\ mem[2][j] = [m |-> 2 * ((j * 7) % 1000), e |-> 0]
                 /\ ~SizeMulWraps(SizeT(j), 7)
                 /\ pc = "i_twice" => (mem[3][j] = mem[1][j] /\ mem[4][j] = mem[2][j])
            ELSE /\ mem[1][j] = ut.g1 /\ mem[2][j] = ut.g1
                 /\ mem[3][j] = ut.g2 /\ mem[4][j] = ut.g2

C7_Witness ==
    /\ pc = "i_twice" /\ ut.len = 2^28
    /\ ut.g1 = Undef /\ ut.g2 = [m |-> 123, e |-> 4]
    /\ mem[2][2^28 - 1] = [m |-> 370, e |-> 0]
    /\ mem[4][2^28 - 1] = [m |-> 370, e |-> 0]
    /\ mem[3][1001] = [m |-> 1, e |-> 0]

\* the output buffers and the verdict of the verification phase, for the
\* values Z the kernels are to leave
ExampleLeaves(Z) ==
    /\ pc \in {"v_asm", "v_print", "v_check", "v_ret"} => mem[zC] = Z
    /\ pc \in {"v_print", "v_check", "v_ret"} => mem[zA] = Z
    /\ pc = "v_ret" =>
            /\ ok = 1
            /\ out[Len(out)] = [msg |-> "Correctness", verdict |-> "PASSED"]
            /\ out[3].expected = Z /\ out[4].z = Z /\ out[5].z = Z
            /\ nChecks = 1
    /\ Len(done) >= 1 => done[1] = [phase |-> "verify", n |-> 3, verdict |-> "PASSED"]

\* C8, as claimed: in the verification phase, with A = 2.0, X = [1, 2, 3] and
\* Y = [11, 12, 13], both kernels leave Z = [15.0, 16.0, 17.0] in their
\* output buffers, and the verdict printed for the example is PASSED.
C8_AsClaimed ==
    ExampleLeaves([j \in 0..2 |-> [m |-> 1000 * (15 + j), e |-> 0]])

\* C8, amended: in the verification phase, with A = 2.0, X = [1, 2, 3] and
\* Y = [11, 12, 13], both kernels leave Z = [13.0, 16.0, 19.0] in their
\* output buffers, and the verdict printed for the example is PASSED.
C8_ExampleResult ==
    ExampleLeaves([j \in 0..2 |-> [m |-> 1000 * (13 + 3 * j), e |-> 0]])

C8_Witness ==
    /\ pc = "v_ret" /\ ok = 1
    /\ mem[zC][0] = [m |-> 13000, e |-> 0]
    /\ mem[zA][2] = [m |-> 19000, e |-> 0]

\* C9: for all n, X, Y and A the output of daxpy_c and the output of
\* daxpy_asm, which gets the scalar by address and writes into the buffer it
\* is given, agree within EPS at every index.
C9_KernelsAgree ==
    pc \in {"k_asm", "k_done"} =>
        /\ \A j \in 0..(ut.len - 1) :
              /\ mem[3][j].m = mem[4][j].m
              /\ mem[3][j].e - mem[4][j].e \in {-1, 0, 1}
        /\ \A j \in ut.len..(MaxLen - 1) : mem[4][j] = [m |-> -9000 - j, e |-> 7]
        /\ mem[1] = ut.x0 /\ mem[2] = ut.y0
        /\ pc = "k_done" => (ut.res.ret = 1 /\ ut.res.printed = <<>>)

C9_Witness ==
    /\ pc = "k_done" /\ ut.len = 3 /\ ut.a = -1
    /\ ut.res.ret = 1
    /\ mem[4][2] = [m |-> 3500, e |-> -1]
    /\ mem[3][2] = [m |-> 3500, e |-> -1]

\* C10: on every path of run_test each allocated buffer is released exactly
\* once before it returns; no buffer is read or written before all four
\* allocations are known to have succeeded or after it was released; and
\* no buffer of one size-run is held when the next begins.
C10_BufferLifetime ==
    /\ ~fault /\ pc # "crashed"
    /\ heap \subseteq ({x, y, zC, zA} \ {NULL})
    /\ pc \in {"r_timeC", "r_timeA", "r_check", "r_print", "r_free"} =>
            /\ {x, y, zC, zA} \subseteq heap
            /\ Cardinality({x, y, zC, zA}) = 4
            /\ DOMAIN mem = heap
    /\ (nInit > 0 \/ callsC > 0 \/ callsA > 0 \/ nChecks > 0) =>
            (pc \in {"r_ret", "m_call", "exited"} \/ NULL \notin {x, y, zC, zA})
    /\ pc \in {"r_ret", "m_call", "exited", "r_malloc_x"} =>
            (heap = {} /\ DOMAIN mem = {})

C10_Witness ==
    /\ pc = "r_ret" /\ k = 3
    /\ NULL \notin {x, y, zC, zA} /\ heap = {}
    /\ done[2].verdict = "alloc_failed"
    /\ nChecks = 1

====
